---- MODULE Spec2Model ----
(***************************************************************************)
(* A model of git-branch-grep (src/src/main.rs): one run of `main`, from   *)
(* the parsed command line to the last printed line.                       *)
(*                                                                         *)
(* The repository, the diff iterator and the regular expression engine are *)
(* libraries.  The repository is modelled as a commit graph with           *)
(* references; the diff iterator as a producer that hands the callback one *)
(* raw line at a time; the search pattern as the literal Needle.           *)
(***************************************************************************)
EXTENDS Integers, Sequences, FiniteSets, TLC

\* ------------------------------------------------------------------ bounds
MaxCommits == 3
MaxLines == 3
MaxOps == 4

\* ------------------------------------------------------- values and inputs
NoCommit == 0
NoName == ""
NoPath == ""
NoLineNo == 0

Commits == 1 .. MaxCommits
BranchNames == {"master", "main", "topic"}

\* A commit's parents are older commits: the identifier doubles as the
\* commit time, which is the order a revision walk follows.
Graphs == { g \in [Commits -> SUBSET Commits] : \A c \in Commits : \A p \in g[c] : p < c }

VARIABLES
    \* command line (Args)
    parent_branch_name, base_commit_ref,
    \* repository
    parents, HEAD, refs,
    \* locals of main
    pc, result, head_commit, root_branch_head_commit, parent_commit,
    base_commit, base_via,
    \* diff processing
    delivered, cur, added_lines, removed_lines, removed_log,
    cb_result, print_result, pd_result,
    \* printing
    next_line, printed,
    \* the MultiSet exercised on its own
    ms, ms_net, ms_ops, ms_last

argVars == <<parent_branch_name, base_commit_ref>>
repoVars == <<parents, HEAD, refs>>
resolveVars == <<head_commit, root_branch_head_commit, parent_commit, base_commit, base_via>>
diffVars == <<delivered, cur, added_lines, removed_lines, removed_log, cb_result, print_result, pd_result>>
printVars == <<next_line, printed>>
msVars == <<ms, ms_net, ms_ops, ms_last>>
vars == <<argVars, repoVars, pc, result, resolveVars, diffVars, printVars, msVars>>

\* ------------------------------------------------------------ commit graph
RECURSIVE AncestorsOf(_, _)
AncestorsOf(g, S) ==
    LET next == S \cup UNION { g[c] : c \in S }
    IN  IF next = S THEN S ELSE AncestorsOf(g, next)

Ancestors(c) == AncestorsOf(parents, {c})

SetMax(S) == CHOOSE x \in S : \A y \in S : y <= x

\* git_merge_base: a best common ancestor, one that no other common
\* ancestor descends from.
MergeBases(a, b) ==
    LET common == Ancestors(a) \cap Ancestors(b)
    IN  { c \in common : \A d \in common : c \in Ancestors(d) => d = c }

\* revwalk.push_head() followed by find_map: commits come newest first and
\* the walk stops at the first one without parents.
RECURSIVE Revwalk(_, _)
Revwalk(pending, seen) ==
    IF pending = {} THEN NoCommit
    ELSE LET c == SetMax(pending)
         IN  IF parents[c] = {} THEN c
             ELSE Revwalk((pending \cup (parents[c] \ seen)) \ {c}, seen \cup parents[c])

FindRootCommit(head) == Revwalk({head}, {head})

\* find_reference(..).peel_to_commit()
FindReference(name) == refs[name]

\* The candidates tried in the other order.
FindRootBranchMainFirst ==
    IF FindReference("main") # NoCommit THEN FindReference("main")
    ELSE FindReference("master")

\* find_map over ["refs/heads/master", "refs/heads/main"]
FindRootBranch ==
    IF FindReference("master") # NoCommit THEN FindReference("master")
    ELSE FindReference("main")

\* ------------------------------------------------- base-commit resolution
\* The options are never checked against each other.
CheckOptionsSkipped ==
    /\ pc = "start"
    /\ pc' = "open"
    /\ UNCHANGED <<argVars, repoVars, result, resolveVars, diffVars, printVars, msVars>>

\* bail!("cannot specify both parent branch and direct diff base options")
CheckOptions ==
    /\ pc = "start"
    /\ IF parent_branch_name # NoName /\ base_commit_ref # NoName
       THEN pc' = "failed" /\ result' = "ConflictingOptions"
       ELSE pc' = "open" /\ UNCHANGED result
    /\ UNCHANGED <<argVars, repoVars, resolveVars, diffVars, printVars, msVars>>

\* git2::Repository::open_from_env(), which may fail
OpenRepo ==
    /\ pc = "open"
    /\ \E ok \in BOOLEAN :
         IF ok THEN pc' = "resolve" /\ UNCHANGED result
         ELSE pc' = "failed" /\ result' = "OpenRepository"
    /\ UNCHANGED <<argVars, repoVars, resolveVars, diffVars, printVars, msVars>>

\* resolve_reference_from_short_name(&base_commit_ref)
ResolveDirect ==
    /\ pc = "resolve"
    /\ base_commit_ref # NoName
    /\ IF FindReference(base_commit_ref) # NoCommit
       THEN /\ base_commit' = FindReference(base_commit_ref)
            /\ base_via' = "direct"
            /\ pc' = "resolved"
            /\ UNCHANGED result
       ELSE /\ pc' = "failed"
            /\ result' = "ResolveBase"
            /\ UNCHANGED <<base_commit, base_via>>
    /\ UNCHANGED <<argVars, repoVars, head_commit, root_branch_head_commit, parent_commit>>
    /\ UNCHANGED <<diffVars, printVars, msVars>>

\* repo.head().and_then(|reference| reference.peel_to_commit())
ResolveHead ==
    /\ pc = "resolve"
    /\ base_commit_ref = NoName
    /\ IF HEAD # NoCommit
       THEN head_commit' = HEAD /\ pc' = "root_branch" /\ UNCHANGED result
       ELSE pc' = "failed" /\ result' = "ResolveHead" /\ UNCHANGED head_commit
    /\ UNCHANGED <<argVars, repoVars, root_branch_head_commit, parent_commit, base_commit, base_via>>
    /\ UNCHANGED <<diffVars, printVars, msVars>>

ResolveRootBranch ==
    /\ pc = "root_branch"
    /\ IF FindRootBranch # NoCommit
       THEN root_branch_head_commit' = FindRootBranch /\ pc' = "parent" /\ UNCHANGED result
       ELSE pc' = "failed" /\ result' = "RootBranchNotFound" /\ UNCHANGED root_branch_head_commit
    /\ UNCHANGED <<argVars, repoVars, head_commit, parent_commit, base_commit, base_via>>
    /\ UNCHANGED <<diffVars, printVars, msVars>>

ResolveParent ==
    /\ pc = "parent"
    /\ IF parent_branch_name # NoName
       THEN IF FindReference(parent_branch_name) # NoCommit
            THEN /\ parent_commit' = FindReference(parent_branch_name)
                 /\ pc' = "compare"
                 /\ UNCHANGED result
            ELSE pc' = "failed" /\ result' = "ResolveParent" /\ UNCHANGED parent_commit
       ELSE parent_commit' = root_branch_head_commit /\ pc' = "compare" /\ UNCHANGED result
    /\ UNCHANGED <<argVars, repoVars, head_commit, root_branch_head_commit, base_commit, base_via>>
    /\ UNCHANGED <<diffVars, printVars, msVars>>

\* The comparison without the inner test: equal commits always fall back to
\* the root commit.
CompareCommitsNoSameRef ==
    /\ pc = "compare"
    /\ IF head_commit = parent_commit THEN pc' = "root_walk" ELSE pc' = "merge_base"
    /\ UNCHANGED <<argVars, repoVars, result, resolveVars, diffVars, printVars, msVars>>

\* if head_commit.id() == parent_commit.id() { if head_commit.id() ==
\* root_branch_head_commit.id() { .. } else { bail!(..) } } else { .. }
CompareCommits ==
    /\ pc = "compare"
    /\ IF head_commit = parent_commit
       THEN IF head_commit = root_branch_head_commit
            THEN pc' = "root_walk" /\ UNCHANGED result
            ELSE pc' = "failed" /\ result' = "SameRef"
       ELSE pc' = "merge_base" /\ UNCHANGED result
    /\ UNCHANGED <<argVars, repoVars, resolveVars, diffVars, printVars, msVars>>

RootWalk ==
    /\ pc = "root_walk"
    /\ IF FindRootCommit(HEAD) # NoCommit
       THEN /\ base_commit' = FindRootCommit(HEAD)
            /\ base_via' = "root_walk"
            /\ pc' = "resolved"
            /\ UNCHANGED result
       ELSE /\ pc' = "failed"
            /\ result' = "RootCommitNotFound"
            /\ UNCHANGED <<base_commit, base_via>>
    /\ UNCHANGED <<argVars, repoVars, head_commit, root_branch_head_commit, parent_commit>>
    /\ UNCHANGED <<diffVars, printVars, msVars>>

\* The merge base taken against the root branch instead of the parent.
MergeBaseWithRoot ==
    /\ pc = "merge_base"
    /\ \/ /\ MergeBases(head_commit, root_branch_head_commit) = {}
          /\ pc' = "failed"
          /\ result' = "MergeBase"
          /\ UNCHANGED <<base_commit, base_via>>
       \/ /\ \E mb \in MergeBases(head_commit, root_branch_head_commit) : base_commit' = mb
          /\ base_via' = "merge_base"
          /\ pc' = "resolved"
          /\ UNCHANGED result
    /\ UNCHANGED <<argVars, repoVars, head_commit, root_branch_head_commit, parent_commit>>
    /\ UNCHANGED <<diffVars, printVars, msVars>>

\* repo.merge_base(head_commit.id(), parent_commit.id())
MergeBase ==
    /\ pc = "merge_base"
    /\ \/ /\ MergeBases(head_commit, parent_commit) = {}
          /\ pc' = "failed"
          /\ result' = "MergeBase"
          /\ UNCHANGED <<base_commit, base_via>>
       \/ /\ \E mb \in MergeBases(head_commit, parent_commit) : base_commit' = mb
          /\ base_via' = "merge_base"
          /\ pc' = "resolved"
          /\ UNCHANGED result
    /\ UNCHANGED <<argVars, repoVars, head_commit, root_branch_head_commit, parent_commit>>
    /\ UNCHANGED <<diffVars, printVars, msVars>>

\* ------------------------------------------------------------- diff lines
BadByte == "#"
Space == " "

\* Raw line contents as the diff hands them over, one byte per element.
RawContents ==
    { <<"n">>, <<Space, "n">>, <<"n", Space>>, <<"o", "n">>, <<"o">>, <<"n", BadByte>> }

\* The search pattern; regex matching is the library's.
Needle == <<"n">>

Origins == {"Addition", "Deletion", "Context"}

File(path, binary) == [path |-> path, is_binary |-> binary]

\* File-change descriptors: the old and the new side of a delta.
Deltas ==
    { [old_file |-> File("a.txt", FALSE), new_file |-> File("a.txt", FALSE)],
      [old_file |-> File("a.txt", FALSE), new_file |-> File("b.txt", FALSE)],
      [old_file |-> File("a.txt", TRUE),  new_file |-> File("b.txt", FALSE)],
      [old_file |-> File("b.txt", FALSE), new_file |-> File("a.txt", TRUE)],
      [old_file |-> File("a.txt", FALSE), new_file |-> File(NoPath, FALSE)],
      [old_file |-> File(NoPath, FALSE),  new_file |-> File("b.txt", FALSE)] }

LineNos ==
    { [new |-> 1, old |-> NoLineNo], [new |-> NoLineNo, old |-> 2],
      [new |-> 1, old |-> 2], [new |-> NoLineNo, old |-> NoLineNo] }

RawLines == [origin : Origins, delta : Deltas, content : RawContents, lineno : LineNos]

NoLine ==
    [origin |-> "None",
     delta |-> [old_file |-> File(NoPath, FALSE), new_file |-> File(NoPath, FALSE)],
     content |-> <<>>,
     lineno |-> [new |-> NoLineNo, old |-> NoLineNo]]

\* str::from_utf8 accepts the bytes unchanged or rejects them.
FromUtf8Ok(bytes) == \A i \in 1 .. Len(bytes) : bytes[i] # BadByte

RECURSIVE TrimStart(_)
TrimStart(s) == IF s # <<>> /\ Head(s) = Space THEN TrimStart(Tail(s)) ELSE s

RECURSIVE TrimEnd(_)
TrimEnd(s) == IF s # <<>> /\ s[Len(s)] = Space THEN TrimEnd(SubSeq(s, 1, Len(s) - 1)) ELSE s

\* Leading whitespace only.
TrimLeadingOnly(s) == TrimStart(s)

\* str::trim
Trim(s) == TrimEnd(TrimStart(s))

NoMatch == [start |-> -1, end |-> -1]

MatchesAt(s, i) == i + Len(Needle) - 1 <= Len(s) /\ SubSeq(s, i, i + Len(Needle) - 1) = Needle

\* search.find(content): the byte range of the first match (0-based, half
\* open), or NoMatch.
Find(s) ==
    LET hits == { i \in 1 .. Len(s) : MatchesAt(s, i) }
    IN  IF hits = {} THEN NoMatch
        ELSE LET i == CHOOSE h \in hits : \A g \in hits : h <= g
             IN  [start |-> i - 1, end |-> i - 1 + Len(Needle)]

\* ----------------------------------------------------------------- MultiSet
EmptyMultiSet == [k \in {} |-> 0]

Without(m, k) == [x \in DOMAIN m \ {k} |-> m[x]]

\* MultiSet::insert
MultiSetInsert(m, k) ==
    IF k \in DOMAIN m THEN [m EXCEPT ![k] = @ + 1]
    ELSE [x \in DOMAIN m \cup {k} |-> IF x = k THEN 1 ELSE m[x]]

\* A membership test that consumes nothing.
MultiSetRemoveKeep(m, k) == [set |-> m, found |-> k \in DOMAIN m]

\* The count goes down but the entry stays, also at zero.
MultiSetRemoveLeaky(m, k) ==
    IF k \in DOMAIN m
    THEN [set |-> [m EXCEPT ![k] = @ - 1], found |-> TRUE]
    ELSE [set |-> m, found |-> FALSE]

\* MultiSet::remove: the set afterwards and the returned bool
MultiSetRemove(m, k) ==
    IF k \in DOMAIN m
    THEN [set |-> IF m[k] = 1 THEN Without(m, k) ELSE [m EXCEPT ![k] = @ - 1],
          found |-> TRUE]
    ELSE [set |-> m, found |-> FALSE]

\* Occurrences of k stored in m.
Count(m, k) == IF k \in DOMAIN m THEN m[k] ELSE 0

\* The removed lines recorded so far, as the diff delivered them (raw content
\* and path); never decremented.
LogInsert(log, k) ==
    [x \in DOMAIN log \cup {k} |-> IF x \in DOMAIN log THEN log[x] + (IF x = k THEN 1 ELSE 0) ELSE 1]

\* --------------------------------------------------------- diff processing
\* base_commit.tree()
GetTree ==
    /\ pc = "resolved"
    /\ \E ok \in BOOLEAN :
         IF ok THEN pc' = "diff" /\ UNCHANGED result
         ELSE pc' = "failed" /\ result' = "OldTree"
    /\ UNCHANGED <<argVars, repoVars, resolveVars, diffVars, printVars, msVars>>

\* repo.diff_tree_to_workdir_with_index(..)
ComputeDiff ==
    /\ pc = "diff"
    /\ \E ok \in BOOLEAN :
         IF ok THEN pc' = "iterate" /\ UNCHANGED result
         ELSE pc' = "failed" /\ result' = "Diffing"
    /\ UNCHANGED <<argVars, repoVars, resolveVars, diffVars, printVars, msVars>>

\* diff.print hands the next line of the patch to the closure.
DeliverLine ==
    /\ pc = "iterate"
    /\ delivered < MaxLines
    /\ \E l \in RawLines : cur' = l
    /\ delivered' = delivered + 1
    /\ pc' = "callback"
    /\ UNCHANGED <<argVars, repoVars, result, resolveVars, printVars, msVars>>
    /\ UNCHANGED <<added_lines, removed_lines, removed_log, cb_result, print_result, pd_result>>

\* The old side whatever the origin.
SelectFileOld(line) == line.delta.old_file

\* let file = if added { delta.new_file() } else { delta.old_file() }
SelectFile(line) ==
    IF line.origin = "Addition" THEN line.delta.new_file ELSE line.delta.old_file

\* The closure passed to process_diff, as a function of the line: what it
\* does with it.
Classify(line) ==
    IF line.origin \notin {"Addition", "Deletion"} THEN [kind |-> "skip"]
    ELSE
    LET added == line.origin = "Addition"
        file == SelectFile(line)
    IN  IF file.is_binary THEN [kind |-> "skip"]
        ELSE IF ~FromUtf8Ok(line.content) THEN [kind |-> "utf8_error"]
        ELSE
        LET content == Trim(line.content)
            lineno == IF line.lineno.new # NoLineNo THEN line.lineno.new ELSE line.lineno.old
        IN  IF lineno = NoLineNo THEN [kind |-> "panic"]
            ELSE IF file.path = NoPath THEN [kind |-> "skip"]
            ELSE IF Find(content) = NoMatch THEN [kind |-> "skip"]
            ELSE IF added
                 THEN [kind |-> "added",
                       line |-> [content |-> content, range |-> Find(content),
                                 lineno |-> lineno, path |-> file.path]]
                 ELSE [kind |-> "removed", content |-> content]

\* The iteration goes on after an error.
CallbackNextContinue(kind) == IF kind = "panic" THEN "panicked" ELSE "iterate"

\* The wrapper in process_diff: Ok(()) => true (go on), Err => false (stop);
\* a panic of the closure ends the run.
CallbackNext(kind) ==
    CASE kind = "utf8_error" -> "stopped"
      [] kind = "panic" -> "panicked"
      [] OTHER -> "iterate"

\* One call of the closure, and of the wrapper in process_diff that turns
\* its result into the iterator's continue flag.
Callback ==
    /\ pc = "callback"
    /\ LET out == Classify(cur)
       IN  /\ added_lines' = IF out.kind = "added" THEN Append(added_lines, out.line)
                             ELSE added_lines
           /\ removed_lines' = IF out.kind = "removed"
                               THEN MultiSetInsert(removed_lines, out.content)
                               ELSE removed_lines
           /\ removed_log' = IF out.kind = "removed"
                             THEN LogInsert(removed_log, [content |-> cur.content,
                                                          path |-> cur.delta.old_file.path])
                             ELSE removed_log
           /\ cb_result' = IF out.kind = "utf8_error" THEN "Utf8" ELSE cb_result
           /\ pc' = CallbackNext(out.kind)
           /\ result' = IF out.kind = "panic" THEN "Panic" ELSE result
    /\ cur' = NoLine
    /\ UNCHANGED <<argVars, repoVars, resolveVars, printVars, msVars>>
    /\ UNCHANGED <<delivered, print_result, pd_result>>

\* The iterator's verdict alone.
ResultAndSecond(a, b) == b

\* Result::and
ResultAnd(a, b) == IF a = "Ok" THEN b ELSE a

\* diff.print returns, with its own verdict, and process_diff returns
\* cb_result.and(print_result).
ProcessDiffReturns ==
    /\ pc \in {"iterate", "stopped"}
    /\ \E r \in {"Ok", "IterateDiff"} :
         /\ print_result' = r
         /\ pd_result' = ResultAnd(cb_result, r)
    /\ IF pd_result' = "Ok" THEN pc' = "printing" /\ UNCHANGED result
       ELSE pc' = "failed" /\ result' = pd_result'
    /\ UNCHANGED <<argVars, repoVars, resolveVars, printVars, msVars>>
    /\ UNCHANGED <<delivered, cur, added_lines, removed_lines, removed_log, cb_result>>

\* ---------------------------------------------------------------- printing
\* One iteration of `for line in added_lines`.
PrintLine ==
    /\ pc = "printing"
    /\ next_line <= Len(added_lines)
    /\ LET line == added_lines[next_line]
           r == MultiSetRemove(removed_lines, line.content)
       IN  /\ removed_lines' = r.set
           /\ printed' = IF r.found THEN printed ELSE Append(printed, line)
    /\ next_line' = next_line + 1
    /\ UNCHANGED <<argVars, repoVars, pc, result, resolveVars, msVars>>
    /\ UNCHANGED <<delivered, cur, added_lines, removed_log, cb_result, print_result, pd_result>>

\* The loop is over: main returns Ok(()).
Finish ==
    /\ pc = "printing"
    /\ next_line > Len(added_lines)
    /\ pc' = "done"
    /\ result' = "Ok"
    /\ UNCHANGED <<argVars, repoVars, resolveVars, diffVars, printVars, msVars>>

\* ------------------------------------------------- the MultiSet on its own
Keys == { <<"n">>, <<"o", "n">>, <<"n", "n">> }

Insert ==
    /\ ms_ops < MaxOps
    /\ \E k \in Keys :
         /\ ms' = MultiSetInsert(ms, k)
         /\ ms_net' = [ms_net EXCEPT ![k] = @ + 1]
         /\ ms_last' = [op |-> "insert", key |-> k, found |-> FALSE, before |-> ms]
    /\ ms_ops' = ms_ops + 1
    /\ UNCHANGED <<argVars, repoVars, pc, result, resolveVars, diffVars, printVars>>

Remove ==
    /\ ms_ops < MaxOps
    /\ \E k \in Keys :
         LET r == MultiSetRemove(ms, k)
         IN  /\ ms' = r.set
             /\ ms_net' = [ms_net EXCEPT ![k] = IF r.found THEN @ - 1 ELSE @]
             /\ ms_last' = [op |-> "remove", key |-> k, found |-> r.found, before |-> ms]
    /\ ms_ops' = ms_ops + 1
    /\ UNCHANGED <<argVars, repoVars, pc, result, resolveVars, diffVars, printVars>>

\* ------------------------------------------------------------------- Init
\* Two unrelated roots (1 and 2) and a line of commits on top of the second.
History == [c \in Commits |-> IF c <= 2 THEN {} ELSE {c - 1}]

Scenario(head, master, main, topic, parent, base) ==
    [head |-> head, master |-> master, main |-> main, topic |-> topic,
     parent |-> parent, base |-> base]

\* One repository and command line per way base-commit resolution can end.
RunScenarios ==
    { Scenario(3, 2, NoCommit, 1, "topic", "topic"),
      Scenario(3, 2, NoCommit, 1, NoName, "topic"),
      Scenario(3, 2, NoCommit, NoCommit, NoName, "topic"),
      Scenario(NoCommit, 2, NoCommit, 1, NoName, NoName),
      Scenario(3, NoCommit, NoCommit, 1, NoName, NoName),
      Scenario(3, 2, NoCommit, NoCommit, "topic", NoName),
      Scenario(3, 2, NoCommit, 3, "topic", NoName),
      Scenario(3, NoCommit, 3, 1, NoName, NoName),
      Scenario(3, 2, NoCommit, 1, NoName, NoName),
      Scenario(3, 1, NoCommit, 1, NoName, NoName) }

InitLocals ==
    /\ pc = "start"
    /\ result = "none"
    /\ head_commit = NoCommit
    /\ root_branch_head_commit = NoCommit
    /\ parent_commit = NoCommit
    /\ base_commit = NoCommit
    /\ base_via = "none"
    /\ delivered = 0
    /\ cur = NoLine
    /\ added_lines = <<>>
    /\ removed_lines = EmptyMultiSet
    /\ removed_log = EmptyMultiSet
    /\ cb_result = "Ok"
    /\ print_result = "none"
    /\ pd_result = "none"
    /\ next_line = 1
    /\ printed = <<>>

InitMs ==
    /\ ms = EmptyMultiSet
    /\ ms_net = [k \in Keys |-> 0]
    /\ ms_ops = 0
    /\ ms_last = [op |-> "new", key |-> <<>>, found |-> FALSE, before |-> EmptyMultiSet]

InitScenario(s) ==
    /\ parents = History
    /\ HEAD = s.head
    /\ refs = [b \in BranchNames |->
                 CASE b = "master" -> s.master [] b = "main" -> s.main [] OTHER -> s.topic]
    /\ parent_branch_name = s.parent
    /\ base_commit_ref = s.base

\* Every repository and command line within the bounds.
InitResolve ==
    /\ parents \in Graphs
    /\ HEAD \in Commits \cup {NoCommit}
    /\ refs \in [BranchNames -> Commits \cup {NoCommit}]
    /\ parent_branch_name \in BranchNames \cup {NoName}
    /\ base_commit_ref \in BranchNames \cup {NoName}
    /\ InitLocals
    /\ InitMs

\* A whole run: every repository when both options are given, and the
\* scenarios otherwise.
Init ==
    /\ \/ \E s \in RunScenarios : InitScenario(s)
       \/ /\ parents \in Graphs
          /\ HEAD \in Commits \cup {NoCommit}
          /\ refs \in [BranchNames -> Commits \cup {NoCommit}]
          /\ parent_branch_name \in BranchNames
          /\ base_commit_ref \in BranchNames
    /\ InitLocals
    /\ InitMs

InitMultiSet ==
    /\ InitScenario(Scenario(3, 2, NoCommit, 1, NoName, NoName))
    /\ InitLocals
    /\ InitMs

\* ------------------------------------------------------------------- Next
NextResolve ==
    \/ CheckOptions
    \/ OpenRepo
    \/ ResolveDirect
    \/ ResolveHead
    \/ ResolveRootBranch
    \/ ResolveParent
    \/ CompareCommits
    \/ RootWalk
    \/ MergeBase

Next ==
    \/ CheckOptions
    \/ OpenRepo
    \/ ResolveDirect
    \/ ResolveHead
    \/ ResolveRootBranch
    \/ ResolveParent
    \/ CompareCommits
    \/ RootWalk
    \/ MergeBase
    \/ GetTree
    \/ ComputeDiff
    \/ DeliverLine
    \/ Callback
    \/ ProcessDiffReturns
    \/ PrintLine
    \/ Finish

NextMultiSet == Insert \/ Remove

Spec == Init /\ [][Next]_vars

SpecResolve == InitResolve /\ [][NextResolve]_vars

SpecMultiSet == InitMultiSet /\ [][NextMultiSet]_vars

\* ================================================================= claims
\* The repository's answers, stated without the resolver's locals.
RootTip == IF refs["master"] # NoCommit THEN refs["master"] ELSE refs["main"]

ParentTip == IF parent_branch_name = NoName THEN RootTip ELSE refs[parent_branch_name]

\* Zero-parent ancestors of c (c included).
RootAncestors(c) == { r \in Ancestors(c) : parents[r] = {} }

\* No explicit base, every reference resolves, and resolution has ended.
Comparable ==
    /\ base_commit_ref = NoName
    /\ HEAD # NoCommit
    /\ RootTip # NoCommit
    /\ ParentTip # NoCommit
    /\ pc \in {"resolved", "failed"}
    /\ result # "OpenRepository"

\* C2 as stated: whenever HEAD is not the root-branch tip (and the two
\* histories are related), resolution returns the merge-base of HEAD and the
\* parent commit.
C2_AsClaimed ==
    (Comparable /\ HEAD # RootTip /\ MergeBases(HEAD, ParentTip) # {})
        => (pc = "resolved" /\ base_commit \in MergeBases(HEAD, ParentTip))

\* C2 amended: when HEAD is not the root-branch tip and HEAD's commit differs
\* from the parent commit, resolution takes the merge-base of HEAD and the
\* parent commit (the supplied parent branch, or the root branch), however far
\* the two have diverged; it fails with the merge-base error when they share
\* no ancestor.
C2_MergeBaseWhenDifferent ==
    (Comparable /\ HEAD # RootTip /\ HEAD # ParentTip)
        => IF MergeBases(HEAD, ParentTip) = {}
           THEN pc = "failed" /\ result = "MergeBase" /\ base_commit = NoCommit
           ELSE /\ pc = "resolved"
                /\ base_via = "merge_base"
                /\ base_commit \in MergeBases(HEAD, ParentTip)

\* HEAD and a supplied parent branch have both moved on from their merge-base.
C2_Witness ==
    /\ pc = "resolved"
    /\ base_via = "merge_base"
    /\ parent_branch_name # NoName
    /\ HEAD # RootTip
    /\ ParentTip # RootTip
    /\ base_commit \notin {HEAD, ParentTip}

\* C3 as stated: whenever HEAD equals the resolved root-branch tip, resolution
\* returns the unique zero-parent ancestor of HEAD, never HEAD itself and never
\* a merge-base.
C3_AsClaimed ==
    (Comparable /\ HEAD = RootTip)
        => /\ pc = "resolved"
           /\ RootAncestors(HEAD) = {base_commit}
           /\ base_commit # HEAD
           /\ base_via # "merge_base"

\* C3 amended: when HEAD equals the resolved root-branch tip (master tried
\* first, then main) and the parent commit is that same commit, resolution
\* returns a zero-parent ancestor of HEAD found by walking back from HEAD: the
\* only one when HEAD's history has one root, HEAD itself when HEAD has no
\* parents; never a merge-base.
C3_RootCommitOnRootBranch ==
    (Comparable /\ HEAD = RootTip /\ ParentTip = HEAD)
        => /\ pc = "resolved"
           /\ base_via = "root_walk"
           /\ base_commit \in RootAncestors(HEAD)
           /\ (parents[HEAD] = {} => base_commit = HEAD)

\* HEAD is the tip of main (there is no master) and the walk went back to an
\* older commit.
C3_Witness ==
    /\ pc = "resolved"
    /\ base_via = "root_walk"
    /\ refs["master"] = NoCommit
    /\ HEAD = refs["main"]
    /\ base_commit # HEAD
    /\ RootAncestors(HEAD) = {base_commit}

\* C5: with no explicit base and HEAD's commit identical to the parent commit,
\* resolution fails with SameRef exactly when the parent commit is not the
\* root-branch commit, and then sets no base commit (no root walk, no
\* merge-base); SameRef arises in no other case.
C5_SameRef ==
    /\ (Comparable /\ HEAD = ParentTip)
          => ((pc = "failed" /\ result = "SameRef") <=> ParentTip # RootTip)
    /\ result = "SameRef"
          => /\ pc = "failed"
             /\ base_commit_ref = NoName
             /\ HEAD = ParentTip
             /\ ParentTip # RootTip
             /\ base_commit = NoCommit
             /\ base_via = "none"

\* HEAD sits on the supplied parent branch, which is not the root branch.
C5_Witness ==
    /\ pc = "failed"
    /\ result = "SameRef"
    /\ parent_branch_name = "topic"
    /\ RootTip # HEAD

\* ---------------------------------------------------- claims about the diff
NoEdgeSpace(t) == t = <<>> \/ (t[1] # Space /\ t[Len(t)] # Space)

\* t is raw without its surrounding whitespace.
IsTrimOf(t, raw) ==
    /\ NoEdgeSpace(t)
    /\ \E i \in 0 .. Len(raw) :
         /\ i + Len(t) <= Len(raw)
         /\ SubSeq(raw, i + 1, i + Len(t)) = t
         /\ \A x \in 1 .. Len(raw) : (x <= i \/ x > i + Len(t)) => raw[x] = Space

RECURSIVE SumOver(_, _)
SumOver(f, S) ==
    IF S = {} THEN 0
    ELSE LET x == CHOOSE y \in S : TRUE IN f[x] + SumOver(f, S \ {x})

\* k: the removed matching lines whose content trims to c.
RemovedWith(c) == SumOver(removed_log, { e \in DOMAIN removed_log : IsTrimOf(c, e.content) })

\* m: the added matching lines with content c.
AddedWith(c) == Cardinality({ i \in 1 .. Len(added_lines) : added_lines[i].content = c })

PrintedWith(c) == Cardinality({ i \in 1 .. Len(printed) : printed[i].content = c })

\* The position of added line i among the added lines of the same content.
Rank(i) == Cardinality({ j \in 1 .. i : added_lines[j].content = added_lines[i].content })

\* The added lines from position i on that come after the first k of their
\* content.
RECURSIVE LatestFrom(_)
LatestFrom(i) ==
    IF i > Len(added_lines) THEN <<>>
    ELSE (IF Rank(i) > RemovedWith(added_lines[i].content) THEN <<added_lines[i]>> ELSE <<>>)
         \o LatestFrom(i + 1)

Max(a, b) == IF a >= b THEN a ELSE b

AddedContents == { added_lines[i].content : i \in 1 .. Len(added_lines) }

\* C1: when the run is over, for every content C with k removed and m added
\* matching lines, exactly max(m - k, 0) lines of content C are printed, and
\* they are the latest of the m added lines in diff order (the first min(m, k)
\* are the ones suppressed).
C1_Cancellation ==
    pc = "done"
        => /\ \A c \in AddedContents : PrintedWith(c) = Max(AddedWith(c) - RemovedWith(c), 0)
           /\ printed = LatestFrom(1)

\* One removed and two added lines of the same content: the later one is
\* printed.
C1_Witness ==
    /\ pc = "done"
    /\ Len(added_lines) = 2
    /\ added_lines[1].content = added_lines[2].content
    /\ added_lines[1] # added_lines[2]
    /\ RemovedWith(added_lines[1].content) = 1
    /\ printed = <<added_lines[2]>>

\* C4: with both a parent branch and an explicit base reference the run fails
\* with ConflictingOptions at its first step, whatever the repository holds:
\* the repository is not opened, no reference is resolved, no diff line is
\* delivered and nothing is printed.
C4_ConflictingOptions ==
    (parent_branch_name # NoName /\ base_commit_ref # NoName /\ pc # "start")
        => /\ pc = "failed"
           /\ result = "ConflictingOptions"
           /\ head_commit = NoCommit
           /\ root_branch_head_commit = NoCommit
           /\ parent_commit = NoCommit
           /\ base_commit = NoCommit
           /\ delivered = 0
           /\ printed = <<>>

\* Both options name a branch that does not even resolve, and HEAD is unborn.
C4_Witness ==
    /\ pc = "failed"
    /\ result = "ConflictingOptions"
    /\ HEAD = NoCommit
    /\ refs[parent_branch_name] = NoCommit
    /\ refs[base_commit_ref] = NoCommit

\* C6: a run that ends in an error (or a panic) has printed nothing, and a
\* line is printed only once process_diff has returned Ok: the closure and the
\* iterator both succeeded over the whole diff.
C6_NoPartialOutput ==
    /\ pc \in {"failed", "panicked"} => printed = <<>>
    /\ pc \notin {"printing", "done"} => (printed = <<>> /\ next_line = 1)
    /\ pc \in {"printing", "done"}
          => (cb_result = "Ok" /\ print_result = "Ok" /\ pd_result = "Ok")

\* Matching added lines had been collected when a later line failed to decode.
C6_Witness ==
    /\ pc = "failed"
    /\ result = "Utf8"
    /\ added_lines # <<>>
    /\ removed_lines = EmptyMultiSet
    /\ printed = <<>>

\* The file side the closure must look at, and the lines it must record.
SideOf(l) == IF l.origin = "Addition" THEN l.delta.new_file ELSE l.delta.old_file

HasNeedle(raw) == \E i \in 1 .. Len(raw) : MatchesAt(raw, i)

Reaches(l) == l.origin \in {"Addition", "Deletion"} /\ ~SideOf(l).is_binary

HasLineNo(l) == l.lineno.new # NoLineNo \/ l.lineno.old # NoLineNo

Recordable(l) ==
    /\ Reaches(l)
    /\ FromUtf8Ok(l.content)
    /\ HasLineNo(l)
    /\ SideOf(l).path # NoPath
    /\ HasNeedle(l.content)

Last(q) == q[Len(q)]

\* C7: cancellation is keyed on trimmed content alone.  A removed matching
\* line is stored under its content without the surrounding whitespace, an
\* added one is kept with its content trimmed the same way, and when printing
\* an added line is suppressed (consuming one occurrence) exactly when the
\* multiset holds its content, whatever its path and line number.
C7_TrimmedContentKey ==
    [][ /\ (pc = "callback" /\ Recordable(cur) /\ cur.origin = "Deletion")
              => \E k \in DOMAIN removed_lines' :
                   /\ IsTrimOf(k, cur.content)
                   /\ Count(removed_lines', k) = Count(removed_lines, k) + 1
        /\ (pc = "callback" /\ Recordable(cur) /\ cur.origin = "Addition")
              => /\ Len(added_lines') = Len(added_lines) + 1
                 /\ IsTrimOf(Last(added_lines').content, cur.content)
        /\ (pc = "printing" /\ next_line' # next_line)
              => LET line == added_lines[next_line]
                 IN  IF Count(removed_lines, line.content) > 0
                     THEN /\ printed' = printed
                          /\ Count(removed_lines', line.content)
                               = Count(removed_lines, line.content) - 1
                     ELSE /\ printed' = Append(printed, line)
                          /\ removed_lines' = removed_lines
      ]_vars

\* A pure move: "n " removed from a.txt, "n" added to b.txt, nothing printed.
C7_Witness ==
    /\ pc = "done"
    /\ Len(added_lines) = 1
    /\ added_lines[1].path = "b.txt"
    /\ added_lines[1].content = <<"n">>
    /\ DOMAIN removed_log = {[content |-> <<"n", Space>>, path |-> "a.txt"]}
    /\ printed = <<>>

\* a is b with some elements left out.
IsSubseq(a, b) ==
    \E f \in [1 .. Len(a) -> 1 .. Len(b)] :
        /\ \A i \in 1 .. Len(a) : a[i] = b[f[i]]
        /\ \A i \in 1 .. Len(a) : \A j \in 1 .. Len(a) : i < j => f[i] < f[j]

\* C8: the output is an order-preserving subsequence of the added lines whose
\* trimmed content matches the pattern.  Only an added line of a non-binary
\* file that matches is recorded as added, only a removed one that matches
\* enters the multiset, a line without a match changes neither, and only lines
\* recorded as added are printed, in their order.
C8_OutputIsFilteredAdditions ==
    /\ [](/\ \A i \in 1 .. Len(added_lines) :
                /\ Find(added_lines[i].content) # NoMatch
                /\ added_lines[i].range = Find(added_lines[i].content)
          /\ \A k \in DOMAIN removed_lines : Find(k) # NoMatch
          /\ IsSubseq(printed, SubSeq(added_lines, 1, next_line - 1)))
    /\ [][ /\ added_lines' # added_lines
                => /\ pc = "callback"
                   /\ cur.origin = "Addition"
                   /\ ~cur.delta.new_file.is_binary
                   /\ HasNeedle(cur.content)
                   /\ added_lines = SubSeq(added_lines', 1, Len(added_lines))
                   /\ Len(added_lines') = Len(added_lines) + 1
                   /\ Last(added_lines').path = cur.delta.new_file.path
                   /\ removed_lines' = removed_lines
           /\ (pc = "callback" /\ removed_lines' # removed_lines)
                => /\ cur.origin = "Deletion"
                   /\ ~cur.delta.old_file.is_binary
                   /\ HasNeedle(cur.content)
                   /\ added_lines' = added_lines
           /\ (pc = "callback" /\ ~HasNeedle(cur.content))
                => (added_lines' = added_lines /\ removed_lines' = removed_lines)
           /\ printed' # printed
                => (pc = "printing" /\ printed' = Append(printed, added_lines[next_line]))
         ]_vars

\* Two added lines printed in diff order, while a removed-only match stays
\* unprinted.
C8_Witness ==
    /\ pc = "done"
    /\ Len(added_lines) = 2
    /\ added_lines[1] # added_lines[2]
    /\ printed = added_lines
    /\ removed_lines # EmptyMultiSet

\* C9 as stated: every per-line failure, a missing line number included, is
\* recorded as the closure's error, the one process_diff returns.
C9_AsClaimed ==
    /\ pc \in {"stopped", "panicked"} => cb_result # "Ok"
    /\ (pc = "panicked" \/ cb_result # "Ok") => pc \in {"stopped", "failed"}

\* C9 amended: a decode error makes the closure return the error, the wrapper
\* tells the iterator to stop, no later line is classified or recorded, and
\* process_diff returns that error even when the iterator reports its own
\* (the iterator's error is returned only when the closure had none).  A
\* missing line number is not an error value: the closure panics, which also
\* ends the iteration with no later line classified, but no error is recorded
\* and process_diff does not return.
C9_EarlyAbort ==
    /\ [](/\ pc = "stopped" => cb_result = "Utf8"
          /\ cb_result # "Ok" => pc \in {"stopped", "failed"}
          /\ pd_result # "none"
                => pd_result = (IF cb_result # "Ok" THEN cb_result ELSE print_result)
          /\ (pc = "failed" /\ pd_result # "none") => result = pd_result
          /\ pc = "panicked"
                => (cb_result = "Ok" /\ pd_result = "none" /\ result = "Panic"))
    /\ [][ /\ (pc = "callback" /\ Reaches(cur) /\ ~FromUtf8Ok(cur.content))
                => (pc' = "stopped" /\ cb_result' = "Utf8")
           /\ (pc = "callback" /\ Reaches(cur) /\ FromUtf8Ok(cur.content) /\ ~HasLineNo(cur))
                => pc' = "panicked"
           /\ (cb_result # "Ok" \/ pc = "panicked")
                => UNCHANGED <<delivered, cur, added_lines, removed_lines, removed_log, cb_result>>
         ]_vars

\* The second line failed to decode, the iterator reported a failure of its
\* own, and the run ended with the decode error.
C9_Witness ==
    /\ pc = "failed"
    /\ result = "Utf8"
    /\ cb_result = "Utf8"
    /\ print_result = "IterateDiff"
    /\ delivered = 2
    /\ Len(added_lines) = 1

\* C10: every stored entry has a strictly positive count, a key is present
\* iff its inserts minus its successful removes are positive (and that is its
\* count); remove returns true and takes one off that key's count iff the key
\* was present, otherwise returns false and leaves the multiset as it was;
\* no operation changes another key's count.
C10_MultiSet ==
    /\ DOMAIN ms \subseteq Keys
    /\ \A k \in DOMAIN ms : ms[k] > 0
    /\ \A k \in Keys : (k \in DOMAIN ms <=> ms_net[k] > 0) /\ Count(ms, k) = ms_net[k]
    /\ ms_last.op = "remove"
          => /\ ms_last.found <=> ms_last.key \in DOMAIN ms_last.before
             /\ ms_last.found
                   => Count(ms, ms_last.key) = Count(ms_last.before, ms_last.key) - 1
             /\ ~ms_last.found => ms = ms_last.before
    /\ ms_last.op = "insert"
          => Count(ms, ms_last.key) = Count(ms_last.before, ms_last.key) + 1
    /\ ms_last.op # "new"
          => \A o \in Keys \ {ms_last.key} : Count(ms, o) = Count(ms_last.before, o)

\* The last occurrence of a key was removed, its entry is gone, and another
\* key keeps its count of two.
C10_Witness ==
    /\ ms_last.op = "remove"
    /\ ms_last.found
    /\ ms_last.key \notin DOMAIN ms
    /\ \E o \in DOMAIN ms : ms[o] = 2

====
